---- MODULE Spec2Model ----
(***************************************************************************)
(* A model of clgen/preprocess.py: the per-sample pipeline `preprocess`,   *)
(* the batch worker `_preprocess_db_worker`, the partitioner and merger    *)
(* `preprocess_contentfiles` / `_finalize`, the modification tracker       *)
(* `is_modified` / `set_modified_status`, `preprocess_db` and              *)
(* `remove_bad_preprocessed`.                                              *)
(*                                                                         *)
(* Texts are sequences of characters (one-character strings); an opaque    *)
(* chunk of text whose inside no code looks at (a tool's stderr, a line of *)
(* code) is one element. The external tools are oracles: every call draws  *)
(* an exit status and an output from small sets.                           *)
(*                                                                         *)
(* The sink is written through a buffered binary file (open(outpath,'wb')):*)
(* a write lands in the process's buffer and reaches the file when the     *)
(* buffer fills or the file is closed. Pool.map re-raises a job's          *)
(* exception in the parent; whether the other jobs have finished by then   *)
(* is the library's choice, so the parent may resume at any moment after   *)
(* the first failure, and leaving the `terminating` block terminates the   *)
(* workers still running.                                                  *)
(*                                                                         *)
(* Spec is the batch: the store, preprocess_db, preprocess_contentfiles,   *)
(* the workers and remove_bad_preprocessed. SpecFile is preprocess_file on *)
(* one file; SpecTracker is is_modified / set_modified_status on a         *)
(* ContentFiles that rows are added to and deleted from; SpecSanitize,     *)
(* SpecFeatures and SpecMerge apply sanitize_prototype,                    *)
(* verify_bytecode_features and _finalize to every input within bounds.    *)
(***************************************************************************)
EXTENDS Integers, Sequences, FiniteSets, TLC

\* ---------------------------------------------------------------- bounds

\* Largest number of rows ContentFiles holds.
MaxRows == 2

\* max_num_workers (cpu_count() * 4 on the modelled machine).
MaxNumWorkers == 2

\* Longest text sanitize_prototype is applied to on its own.
MaxTextLen == 4

\* Largest count the analyzer's report gives for an instruction type.
MaxCount == 7

\* Most lines a sink file holds when _finalize is applied on its own.
MaxLines == 2

\* ------------------------------------------------------------- constants

EUGLY_CODE == 204

min_num_instructions == 0

\* The ids a ContentFiles row may carry.
IdPool == <<"a", "b", "ab", "c">>

Ids == {IdPool[i] : i \in 1..(IF MaxRows < Len(IdPool) THEN MaxRows ELSE Len(IdPool))}

None == "None"

\* ------------------------------------------------------------------ text

NLc == "\n"

Whitespace == {" ", NLc, "\t"}

Min(a, b) == IF a < b THEN a ELSE b

RECURSIVE LStrip(_)
\* str.lstrip()
LStrip(s) == IF s # <<>> /\ Head(s) \in Whitespace THEN LStrip(Tail(s)) ELSE s

RECURSIVE RStrip(_)
\* str.rstrip()
RStrip(s) ==
    IF s # <<>> /\ s[Len(s)] \in Whitespace THEN RStrip(SubSeq(s, 1, Len(s) - 1)) ELSE s

\* str.strip()
Strip(s) == RStrip(LStrip(s))

RECURSIVE SplitWords(_, _)
\* str.split(): the maximal runs of non-whitespace characters; cur is the run
\* being read.
SplitWords(s, cur) ==
    IF s = <<>> THEN (IF cur = <<>> THEN <<>> ELSE <<cur>>)
    ELSE IF Head(s) \in Whitespace
         THEN (IF cur = <<>> THEN <<>> ELSE <<cur>>) \o SplitWords(Tail(s), <<>>)
         ELSE SplitWords(Tail(s), Append(cur, Head(s)))

RECURSIVE JoinWith(_, _)
\* sep.join(words)
JoinWith(sep, words) ==
    IF words = <<>> THEN <<>>
    ELSE IF Len(words) = 1 THEN words[1]
    ELSE words[1] \o sep \o JoinWith(sep, Tail(words))

\* str.index(c) + 1, or 0 when c is not in s (ValueError).
IndexEnd(s, c) ==
    IF \E i \in 1..Len(s) : s[i] = c
    THEN CHOOSE i \in 1..Len(s) : s[i] = c /\ \A j \in 1..(i - 1) : s[j] # c
    ELSE 0

\* sanitize_prototype with the prototype cut before the '{' (index without + 1).
sanitize_prototype_CutBeforeBrace(src) ==
    LET prototype_end_idx == IndexEnd(src, "{") IN
    IF prototype_end_idx = 0 THEN src
    ELSE JoinWith(<<" ">>, SplitWords(SubSeq(src, 1, prototype_end_idx - 1), <<>>))
         \o SubSeq(src, prototype_end_idx, Len(src))

sanitize_prototype(src) ==
    LET prototype_end_idx == IndexEnd(src, "{") IN
    IF prototype_end_idx = 0 THEN src
    ELSE JoinWith(<<" ">>, SplitWords(SubSeq(src, 1, prototype_end_idx), <<>>))
         \o SubSeq(src, prototype_end_idx + 1, Len(src))

\* ------------------------------------------------------------ exceptions

\* The class each exception class derives from.
BaseOf ==
    [LlvmException |-> "CLgenError",
     ClangFormatException |-> "LlvmException",
     OptException |-> "LlvmException",
     BadCodeException |-> "CLgenError",
     ClangException |-> "BadCodeException",
     CodeAnalysisException |-> "BadCodeException",
     UglyCodeException |-> "CLgenError",
     InstructionCountException |-> "UglyCodeException",
     RewriterException |-> "UglyCodeException",
     CLgenError |-> "Exception",
     ZeroDivisionError |-> "Exception"]

RECURSIVE IsInstance(_, _)
\* isinstance(e, base) for an exception of class cls.
IsInstance(cls, base) ==
    \/ cls = base
    \/ cls \in DOMAIN BaseOf /\ IsInstance(BaseOf[cls], base)

Ok(v) == [ok |-> TRUE, value |-> v]

Raise(cls, msg) == [ok |-> FALSE, exc |-> cls, msg |-> msg]

\* ------------------------------------------------------- external tools

ClangStderr == <<"clang: error">>

OptOutput == <<"opt: error">>

FormatStderr == <<"clang-format: error">>

TotalKey == "instructions (of all types)"

\* What parse_instcounts yields on the analyzer's report.
InstCounts ==
    {[k \in {} |-> 0],
     [k \in {TotalKey, "basic blocks"} |-> IF k = TotalKey THEN 5 ELSE 1]}

IncludeEnd == "# 1 \"<stdin>\" 2"

\* Lines that begin with '#'.
HashLines == {IncludeEnd, "#pragma"}

\* The preprocessor's standard output, as its lines.
CppStdouts == {<<"#pragma", IncludeEnd, "", "#pragma", "kernel">>}

AttributeChunks == {"__attribute__((a))"}

RewriteStdouts == {<<"__attribute__((a))", "r", "{">>, <<>>}

FormatStdouts == {<<" ", "f", " ", NLc, "(", ")", NLc, "{", NLc, " ", "}", NLc>>}

\* What each external tool would exit with and print on one sample.
AllToolRuns ==
    [bcExit : {0, 1}, optExit : {0, 1}, counts : InstCounts,
     cppExit : {0, 1}, cppOut : CppStdouts,
     rwExit : {0, 1, EUGLY_CODE}, rwOut : RewriteStdouts,
     fmtExit : {0, 1}, fmtOut : FormatStdouts]

NotRun == CHOOSE t \in AllToolRuns : t.bcExit = 0 /\ t.optExit = 0 /\ t.cppExit = 0
                                      /\ t.rwExit = 0 /\ t.fmtExit = 0

\* One sample's run of the external tools. A tool runs only when the tools
\* before it let the pipeline reach it (no stage before it fails whatever
\* the counts are, min_num_instructions being 0); the fields of a tool that
\* does not run are those of NotRun.
ToolRuns ==
    {t \in AllToolRuns :
        LET optRuns == t.bcExit = 0
            cppRuns == optRuns /\ t.optExit = 0
            rwRuns == cppRuns /\ t.cppExit = 0
            fmtRuns == rwRuns /\ t.rwExit # EUGLY_CODE
        IN /\ optRuns \/ (t.optExit = NotRun.optExit /\ t.counts = NotRun.counts)
           /\ cppRuns \/ (t.counts = NotRun.counts /\ t.cppExit = NotRun.cppExit
                          /\ t.cppOut = NotRun.cppOut)
           /\ rwRuns \/ (t.rwExit = NotRun.rwExit /\ t.rwOut = NotRun.rwOut)
           /\ fmtRuns \/ (t.fmtExit = NotRun.fmtExit /\ t.fmtOut = NotRun.fmtOut)}

\* ------------------------------------------------------ pipeline stages

compile_cl_bytecode(t) ==
    IF t.bcExit # 0 THEN Raise("ClangException", ClangStderr) ELSE Ok(<<"bc">>)

\* escape_sql_key on the keys the analyzer reports.
escape_sql_key(key) ==
    CASE key = TotalKey -> "instructions_of_all_types"
      [] key = "basic blocks" -> "basic_blocks"
      [] key = "ratio_basic blocks" -> "ratio_basic_blocks"

\* A ratio count/total is kept as the pair <<count, total>>.
instcounts2ratios(counts) ==
    IF DOMAIN counts = {} THEN counts
    ELSE LET others == DOMAIN counts \ {TotalKey}
             keys == {escape_sql_key(TotalKey)}
                     \cup {escape_sql_key(k) : k \in others}
                     \cup {escape_sql_key("ratio_" \o k) : k \in others}
         IN [e \in keys |->
                IF e = escape_sql_key(TotalKey) THEN counts[TotalKey]
                ELSE IF \E k \in others : e = escape_sql_key(k)
                     THEN counts[CHOOSE k \in others : e = escape_sql_key(k)]
                     ELSE LET k == CHOOSE k \in others : e = escape_sql_key("ratio_" \o k)
                          IN <<counts[k], counts[TotalKey]>>]

bytecode_features(t) ==
    IF t.optExit # 0 THEN Raise("OptException", OptOutput)
    ELSE Ok(instcounts2ratios(t.counts))

\* verify_bytecode_features with <= for <.
verify_bytecode_features_AtMost(bc_features) ==
    LET num_instructions ==
            IF "instructions_of_all_types" \in DOMAIN bc_features
            THEN bc_features["instructions_of_all_types"] ELSE 0
    IN IF num_instructions <= min_num_instructions
       THEN Raise("InstructionCountException", <<"Code contains too few instructions">>)
       ELSE Ok(None)

verify_bytecode_features(bc_features) ==
    LET num_instructions ==
            IF "instructions_of_all_types" \in DOMAIN bc_features
            THEN bc_features["instructions_of_all_types"] ELSE 0
    IN IF num_instructions < min_num_instructions
       THEN Raise("InstructionCountException", <<"Code contains too few instructions">>)
       ELSE Ok(None)

RECURSIVE DropHashLines(_)
DropHashLines(lines) ==
    IF lines = <<>> THEN <<>>
    ELSE IF Head(lines) \in HashLines THEN DropHashLines(Tail(lines))
    ELSE <<Head(lines)>> \o DropHashLines(Tail(lines))

RECURSIVE StripBlankLines(_)
\* '\n'.join(lines).strip(), kept as lines: the blank lines at both ends go.
StripBlankLines(lines) ==
    IF lines # <<>> /\ Head(lines) = "" THEN StripBlankLines(Tail(lines))
    ELSE IF lines # <<>> /\ lines[Len(lines)] = ""
         THEN StripBlankLines(SubSeq(lines, 1, Len(lines) - 1))
    ELSE lines

RECURSIVE JoinLines(_)
JoinLines(lines) ==
    IF lines = <<>> THEN <<>>
    ELSE IF Len(lines) = 1 THEN <<lines[1]>>
    ELSE <<lines[1], NLc>> \o JoinLines(Tail(lines))

compiler_preprocess_cl(t) ==
    IF t.cppExit # 0 THEN Raise("ClangException", ClangStderr)
    ELSE LET lines == t.cppOut
             \* the index the loop stops at: the marker line, else the last line
             i == IF \E k \in 1..Len(lines) : lines[k] = IncludeEnd
                  THEN CHOOSE k \in 1..Len(lines) :
                          lines[k] = IncludeEnd /\ \A j \in 1..(k - 1) : lines[j] # IncludeEnd
                  ELSE Len(lines)
         IN Ok(JoinLines(DropHashLines(StripBlankLines(SubSeq(lines, i + 1, Len(lines))))))

RECURSIVE strip_attributes(_)
\* clutil.strip_attributes: the __attribute__ qualifiers are removed.
strip_attributes(src) ==
    IF src = <<>> THEN <<>>
    ELSE IF Head(src) \in AttributeChunks THEN strip_attributes(Tail(src))
    ELSE <<Head(src)>> \o strip_attributes(Tail(src))

\* rewrite_cl raising on every nonzero exit status.
rewrite_cl_AnyNonzero(t, src) ==
    IF t.rwExit # 0 THEN Raise("RewriterException", src)
    ELSE Ok(strip_attributes(t.rwOut))

rewrite_cl(t, src) ==
    IF t.rwExit = EUGLY_CODE THEN Raise("RewriterException", src)
    ELSE Ok(strip_attributes(t.rwOut))

clangformat_ocl(t, src) ==
    IF t.fmtExit # 0 THEN Raise("ClangFormatException", FormatStderr)
    ELSE Ok(t.fmtOut)

\* A stage the pipeline entered: its name, the text it was given, and the
\* exit status and standard output of the tool it ran (0 and nothing for a
\* stage that runs no tool).
Entered(stage, input, exit, stdout) ==
    [stage |-> stage, input |-> input, exit |-> exit, stdout |-> stdout]

\* The outcome r of a stage, reached through the stages of `trace`.
Traced(r, trace) == [trace |-> trace] @@ r

\* The first half of preprocess with the analyzer run before the compiler's
\* exit status is looked at.
CompileAndVerify_AnalyzeFirst(t, src) ==
    LET s1 == <<Entered("CompileToBytecode", src, t.bcExit, <<"bc">>)>>
        bc == compile_cl_bytecode(t)
        s2 == Append(s1, Entered("ExtractFeatures", <<"bc">>, t.optExit, <<"report">>))
        bc_features == bytecode_features(t)
    IN IF ~bc.ok THEN Traced(bc, s2) ELSE
       IF ~bc_features.ok THEN Traced(bc_features, s2) ELSE
       Traced(verify_bytecode_features(bc_features.value),
              Append(s2, Entered("VerifyFeatures", <<"features">>, 0, <<>>)))

\* preprocess, first half: "Compile to bytecode and verify features". An
\* exception ends the call at the stage that raised it; `trace` lists the
\* stages entered.
CompileAndVerify(t, src) ==
    LET s1 == <<Entered("CompileToBytecode", src, t.bcExit, <<"bc">>)>>
        bc == compile_cl_bytecode(t)
    IN IF ~bc.ok THEN Traced(bc, s1) ELSE
    LET s2 == Append(s1, Entered("ExtractFeatures", bc.value, t.optExit, <<"report">>))
        bc_features == bytecode_features(t)
    IN IF ~bc_features.ok THEN Traced(bc_features, s2) ELSE
    LET s3 == Append(s2, Entered("VerifyFeatures", <<"features">>, 0, <<>>))
    IN Traced(verify_bytecode_features(bc_features.value), s3)

\* preprocess, second half: "Rewrite and format source", after the stages of
\* `trace`.
RewriteAndFormat(t, src, trace) ==
    LET s4 == Append(trace, Entered("PreprocessMacros", src, t.cppExit, <<"cpp">>))
        src1 == compiler_preprocess_cl(t)
    IN IF ~src1.ok THEN Traced(src1, s4) ELSE
    LET s5 == Append(s4, Entered("Rewrite", src1.value, t.rwExit, t.rwOut))
        src2 == rewrite_cl(t, src1.value)
    IN IF ~src2.ok THEN Traced(src2, s5) ELSE
    LET s6 == Append(s5, Entered("Format", src2.value, t.fmtExit, t.fmtOut))
        src3 == clangformat_ocl(t, src2.value)
    IN IF ~src3.ok THEN Traced(src3, s6) ELSE
    LET s7 == Append(s6, Entered("SanitizePrototype", Strip(src3.value), 0, <<>>))
    IN Traced(Ok(sanitize_prototype(Strip(src3.value))), s7)

\* preprocess(src, id)
preprocess(t, src) ==
    LET checked == CompileAndVerify(t, src) IN
    IF ~checked.ok THEN checked ELSE RewriteAndFormat(t, src, checked.trace)

\* The try/except around preprocess in _preprocess_db_worker: the status and
\* contents of the record, or the exception no handler catches.
Classify(res) ==
    IF res.ok THEN [raised |-> FALSE, status |-> 0, contents |-> res.value]
    ELSE IF IsInstance(res.exc, "BadCodeException")
         THEN [raised |-> FALSE, status |-> 1, contents |-> res.msg]
    ELSE IF IsInstance(res.exc, "UglyCodeException")
         THEN [raised |-> FALSE, status |-> 2, contents |-> res.msg]
    ELSE [raised |-> TRUE, exc |-> res.exc]

\* json.dumps([id, status, contents]): one line of the sink.
JsonDumps(id, status, contents) == <<id, status, contents>>

\* json.loads(line) bound to VALUES(?,?,?) of PreprocessedFiles.
JsonLoads(line) == [id |-> line[1], status |-> line[2], contents |-> line[3]]

\* ----------------------------------------------------------------- state

VARIABLES
    contentFiles,       \* ContentFiles: the ids, in the order the store returns the rows
    preprocessedFiles,  \* PreprocessedFiles: id -> [status, contents]
    meta,               \* Meta's value under 'preprocessed_checksum', None without the row
    pc,                 \* the caller: "idle", "pool" (inside pool.map), "merged"
    call,               \* the call in progress or last made: [fn, modified, max_num_workers]
    jobs,               \* the jobs of the run, by worker index
    wpc,                \* each worker: "none", "queued", "running", "done", "raised", "killed"
    wrows,              \* each worker: the fetched rows it has not handled yet
    wexc,               \* each worker: the exception its job raised, None without one
    outbuf,             \* each worker: the lines written to outfile and still in its buffer
    cache,              \* the sink files of the cache directory: index -> lines
    outcome,            \* how the last call ended: [result, exc]
    atStart,            \* the tables as the call in progress or last made found them
    transformed,        \* id -> how many times preprocess was invoked on it in this run
    emitted,            \* <<worker, line>> for every line written to an outfile in this run
    last,               \* the invocation of preprocess in the step just taken, if any
    committed,          \* the ids ContentFiles held when Meta's checksum was last written
    file,               \* the file preprocess_file is called on: its text
    applied             \* the function applied on its own: [fn, arg, ret]

batchVars ==
    <<contentFiles, preprocessedFiles, meta, pc, call, jobs, wpc, wrows, wexc,
      outbuf, cache, outcome, atStart, transformed, emitted, last>>

vars == <<batchVars, committed, file, applied>>

Workers == 0..(MaxNumWorkers - 1)

NoCall == [fn |-> None, modified |-> None, max_num_workers |-> 0]

NoOutcome == [result |-> None, exc |-> None]

NoTables == [preprocessedFiles |-> <<>>, meta |-> None, known |-> FALSE, afterRaise |-> FALSE]

NoLast == [id |-> None]

\* The contents column of ContentFiles: the raw source of a sample.
ContentsOf(id) == <<"src of " \o id>>

\* preprocess(contents) of each sample of the pool of ids, under each run of
\* the external tools.
PreprocessRuns ==
    {[id |-> id, res |-> preprocess(t, ContentsOf(id))] : id \in Ids, t \in ToolRuns}

\* No checksum was written yet.
NoCommitted == [known |-> FALSE, ids |-> <<>>]

NoFile == <<>>

NoApplied == [fn |-> None]

\* The store and the caller before any call: empty tables, no worker.
InitBatch ==
    /\ contentFiles = <<>>
    /\ preprocessedFiles = <<>>
    /\ meta = None
    /\ pc = "idle"
    /\ call = NoCall
    /\ jobs = <<>>
    /\ wpc = [w \in Workers |-> "none"]
    /\ wrows = [w \in Workers |-> <<>>]
    /\ wexc = [w \in Workers |-> None]
    /\ outbuf = [w \in Workers |-> <<>>]
    /\ cache = <<>>
    /\ outcome = NoOutcome
    /\ atStart = NoTables
    /\ transformed = [id \in Ids |-> 0]
    /\ emitted = {}
    /\ last = NoLast

Init ==
    /\ InitBatch
    /\ committed = NoCommitted
    /\ file = NoFile
    /\ applied = NoApplied

\* ------------------------------------------------ modification tracker

RECURSIVE Concat(_)
Concat(ids) == IF ids = <<>> THEN "" ELSE Head(ids) \o Concat(Tail(ids))

\* SELECT MD5SUM(id) FROM ContentFiles: md5sum_aggregator steps over str(id)
\* of every row; without rows no step runs and the aggregate is NULL.
MD5SUM(ids) == IF ids = <<>> THEN None ELSE "md5:" \o Concat(ids)

False == "False"

\* is_modified with the stored checksum ignored.
is_modified_NoCache == MD5SUM(contentFiles)

is_modified ==
    LET cached_checksum == meta
        checksum == MD5SUM(contentFiles)
    IN IF cached_checksum = checksum THEN False ELSE checksum

\* Python's truth value of what is_modified returns.
Truthy(v) == v \notin {False, None, ""}

\* ------------------------------------------------------------ partition

\* math.ceil(a / b) for b > 0
CeilDiv(a, b) == (a + b - 1) \div b

\* The jobs list with one sink path for all the jobs.
Jobs_SharedSink(num_contentfiles, num_workers) ==
    LET files_per_worker == CeilDiv(num_contentfiles, num_workers) IN
    [i \in 0..(num_workers - 1) |->
        [db_index_range |-> <<i * files_per_worker, i * files_per_worker + files_per_worker>>,
         json_out |-> 0]]

\* The jobs list with every range starting at the first row.
Jobs_FromFirstRow(num_contentfiles, num_workers) ==
    LET files_per_worker == CeilDiv(num_contentfiles, num_workers) IN
    [i \in 0..(num_workers - 1) |->
        [db_index_range |-> <<0, i * files_per_worker + files_per_worker>>,
         json_out |-> i]]

\* The jobs list of preprocess_contentfiles.
Jobs(num_contentfiles, num_workers) ==
    LET files_per_worker == CeilDiv(num_contentfiles, num_workers) IN
    [i \in 0..(num_workers - 1) |->
        [db_index_range |-> <<i * files_per_worker, i * files_per_worker + files_per_worker>>,
         json_out |-> i]]

\* The SELECT without its OFFSET.
SelectRange_NoOffset(split_size, split_start) ==
    SubSeq(contentFiles, 1, Min(split_size, Len(contentFiles)))

\* SELECT id,contents FROM ContentFiles LIMIT split_size OFFSET split_start
SelectRange(split_size, split_start) ==
    SubSeq(contentFiles, split_start + 1, Min(split_start + split_size, Len(contentFiles)))

\* ---------------------------------------------------------------- merge

\* INSERT OR IGNORE for INSERT OR REPLACE: a row that is there stays.
InsertOrReplace_Ignore(table, row) ==
    [id \in DOMAIN table \cup {row.id} |->
        IF id \in DOMAIN table THEN table[id]
        ELSE [status |-> row.status, contents |-> row.contents]]

\* INSERT OR REPLACE INTO PreprocessedFiles VALUES(?,?,?)
InsertOrReplace(table, row) ==
    [id \in DOMAIN table \cup {row.id} |->
        IF id = row.id THEN [status |-> row.status, contents |-> row.contents]
        ELSE table[id]]

RECURSIVE InsertLines(_, _)
\* for line in infile: INSERT OR REPLACE ... json.loads(line)
InsertLines(table, lines) ==
    IF lines = <<>> THEN table
    ELSE InsertLines(InsertOrReplace(table, JsonLoads(Head(lines))), Tail(lines))

RECURSIVE ImportFiles(_, _, _)
\* for outpath in fs.ls(cache.path): the files in the order of their names
ImportFiles(table, files, names) ==
    IF names = {} THEN table
    ELSE LET n == CHOOSE n \in names : \A m \in names : n <= m
         IN ImportFiles(InsertLines(table, files[n]), files, names \ {n})

\* _finalize importing the first file of the cache directory only.
Finalized_FirstSink(table, files) ==
    IF DOMAIN files = {} THEN table
    ELSE InsertLines(table, files[CHOOSE n \in DOMAIN files : \A m \in DOMAIN files : n <= m])

\* _finalize: PreprocessedFiles once the results are imported and committed.
Finalized(table, files) == ImportFiles(table, files, DOMAIN files)

\* The except branch left without a call of _finalize.
OnPoolException_ReraiseOnly(table, stored, modified, files) ==
    [preprocessedFiles |-> table, meta |-> stored]

\* The except branch recording the new checksum on its way out.
OnPoolException_Commits(table, stored, modified, files) ==
    [preprocessedFiles |-> Finalized(table, files), meta |-> modified]

\* except Exception as e: _finalize(db_path, cache); raise e. The tables the
\* caller is left with: `stored` is the checksum Meta holds, `modified` the
\* one is_modified returned.
OnPoolException(table, stored, modified, files) ==
    [preprocessedFiles |-> Finalized(table, files), meta |-> stored]

\* ------------------------------------------------------ caller's steps

ZeroCounts == [id \in Ids |-> 0]

\* The tables as a call finds them, and whether the call just before it raised.
Snapshot ==
    [preprocessedFiles |-> preprocessedFiles, meta |-> meta, known |-> TRUE,
     afterRaise |-> outcome.result = "raised"]

IdleWorkers ==
    /\ wpc' = [w \in Workers |-> "none"]
    /\ wrows' = [w \in Workers |-> <<>>]
    /\ wexc' = [w \in Workers |-> None]
    /\ outbuf' = [w \in Workers |-> <<>>]

\* preprocess_contentfiles(db_path, max_num_workers) up to the dispatch of
\* the jobs: the row count, the split, the cache directory and the jobs.
EnterContentfiles(fn, modified, max_num_workers) ==
    LET num_contentfiles == Len(contentFiles)
        num_workers == Min(num_contentfiles, max_num_workers)
    IN /\ call' = [fn |-> fn, modified |-> modified, max_num_workers |-> max_num_workers]
       /\ atStart' = Snapshot
       /\ transformed' = ZeroCounts
       /\ emitted' = {}
       /\ last' = NoLast
       /\ wrows' = [w \in Workers |-> <<>>]
       /\ wexc' = [w \in Workers |-> None]
       /\ outbuf' = [w \in Workers |-> <<>>]
       /\ IF num_workers = 0
          THEN \* num_contentfiles / num_workers divides by zero
               /\ pc' = "idle"
               /\ outcome' = [result |-> "raised", exc |-> "ZeroDivisionError"]
               /\ jobs' = <<>>
               /\ wpc' = [w \in Workers |-> "none"]
          ELSE /\ pc' = "pool"
               /\ outcome' = NoOutcome
               /\ jobs' = Jobs(num_contentfiles, num_workers)
               /\ wpc' = [w \in Workers |-> IF w < num_workers THEN "queued" ELSE "none"]
       /\ UNCHANGED <<contentFiles, preprocessedFiles, meta, cache, committed, file, applied>>

\* preprocess_db(db_path) up to the dispatch of the jobs, or to its return
\* when nothing is modified.
CallPreprocessDb ==
    /\ pc = "idle"
    /\ LET modified == is_modified IN
       IF Truthy(modified)
       THEN EnterContentfiles("preprocess_db", modified, MaxNumWorkers)
       ELSE /\ call' = [fn |-> "preprocess_db", modified |-> modified,
                        max_num_workers |-> MaxNumWorkers]
                 /\ outcome' = [result |-> "False", exc |-> None]
            /\ atStart' = Snapshot
            /\ transformed' = ZeroCounts
            /\ emitted' = {}
            /\ last' = NoLast
            /\ jobs' = <<>>
            /\ IdleWorkers
            /\ UNCHANGED <<contentFiles, preprocessedFiles, meta, pc, cache, committed, file,
                           applied>>

\* preprocess_contentfiles called on its own.
CallPreprocessContentfiles ==
    /\ pc = "idle"
    /\ \E max_num_workers \in 1..MaxNumWorkers :
          EnterContentfiles("preprocess_contentfiles", None, max_num_workers)

\* pool.map returns: every job has returned. _finalize imports the sinks and
\* empties the cache.
PoolReturn ==
    /\ UNCHANGED <<committed, file, applied>>
    /\ pc = "pool"
    /\ \A w \in DOMAIN jobs : wpc[w] = "done"
    /\ preprocessedFiles' = Finalized(preprocessedFiles, cache)
    /\ cache' = <<>>
    /\ pc' = "merged"
    /\ last' = NoLast
    /\ UNCHANGED <<contentFiles, meta, call, jobs, wpc, wrows, wexc, outbuf, outcome, atStart, transformed, emitted>>

\* pool.map re-raises the exception of a job: the workers still running are
\* terminated with what they hold in their buffers, _finalize imports the
\* sinks as they are and empties the cache, and the exception is raised again.
PoolRaise ==
    /\ UNCHANGED <<committed, file, applied>>
    /\ pc = "pool"
    /\ \E w \in DOMAIN jobs :
          /\ wpc[w] = "raised"
          /\ outcome' = [result |-> "raised", exc |-> wexc[w]]
    /\ wpc' = [w \in Workers |->
                 IF wpc[w] \in {"queued", "running"} THEN "killed" ELSE wpc[w]]
    /\ outbuf' = [w \in Workers |-> <<>>]
    /\ LET left == OnPoolException(preprocessedFiles, meta, call.modified, cache) IN
          /\ preprocessedFiles' = left.preprocessedFiles
          /\ meta' = left.meta
    /\ cache' = <<>>
    /\ pc' = "idle"
    /\ last' = NoLast
    /\ UNCHANGED <<contentFiles, call, jobs, wrows, wexc, atStart, transformed,
                   emitted>>

\* preprocess_db after preprocess_contentfiles has returned:
\* set_modified_status(db, modified); return True
SetModifiedStatus ==
    /\ committed' = [known |-> TRUE, ids |-> contentFiles]
    /\ UNCHANGED <<file, applied>>
    /\ pc = "merged"
    /\ call.fn = "preprocess_db"
    /\ meta' = call.modified
    /\ outcome' = [result |-> "True", exc |-> None]
    /\ pc' = "idle"
    /\ UNCHANGED <<contentFiles, preprocessedFiles, call, jobs, wpc, wrows, wexc, outbuf,
                   cache, atStart, transformed, emitted>>
    /\ last' = NoLast

\* preprocess_contentfiles, called on its own, returns.
ReturnContentfiles ==
    /\ UNCHANGED <<committed, file, applied>>
    /\ pc = "merged"
    /\ call.fn = "preprocess_contentfiles"
    /\ outcome' = [result |-> "returned", exc |-> None]
    /\ pc' = "idle"
    /\ UNCHANGED <<contentFiles, preprocessedFiles, meta, call, jobs, wpc, wrows,
                   wexc, outbuf, cache, atStart, transformed, emitted>>
    /\ last' = NoLast

\* ------------------------------------------------------ worker's steps

\* _preprocess_db_worker(job) up to its loop: the rows of its range are
\* fetched and outfile is opened, which creates the sink or empties it.
WorkerStart(w) ==
    /\ UNCHANGED <<committed, file, applied>>
    /\ pc = "pool"
    /\ wpc[w] = "queued"
    /\ LET split_start == jobs[w].db_index_range[1]
           split_end == jobs[w].db_index_range[2]
           split_size == split_end - split_start
       IN wrows' = [wrows EXCEPT ![w] = SelectRange(split_size, split_start)]
    /\ cache' = [n \in DOMAIN cache \cup {jobs[w].json_out} |->
                    IF n = jobs[w].json_out THEN <<>> ELSE cache[n]]
    /\ outbuf' = [outbuf EXCEPT ![w] = <<>>]
    /\ wpc' = [wpc EXCEPT ![w] = "running"]
    /\ UNCHANGED <<contentFiles, preprocessedFiles, meta, pc, call, jobs, wexc, outcome,
                   atStart, transformed, emitted>>
    /\ last' = NoLast

\* The worker's test with the stored row never found.
IsCached_Never(id) == FALSE

\* SELECT id FROM PreprocessedFiles WHERE id=?; the row is handled when
\* id != cached_id.
IsCached(id) == id \in DOMAIN preprocessedFiles

\* The close of outfile at the end of the with block: the buffer is written out.
Closed(w) == [cache EXCEPT ![jobs[w].json_out] = @ \o outbuf[w]]

\* One turn of the worker's loop on the next fetched row.
WorkerRow(w) ==
    /\ UNCHANGED <<committed, file, applied>>
    /\ pc = "pool"
    /\ wpc[w] = "running"
    /\ wrows[w] # <<>>
    /\ LET id == Head(wrows[w]) IN
       IF IsCached(id)
       THEN /\ wrows' = [wrows EXCEPT ![w] = Tail(@)]
            /\ last' = NoLast
            /\ UNCHANGED <<wpc, wexc, outbuf, cache, transformed, emitted>>
       ELSE \E run \in PreprocessRuns :
              /\ run.id = id
              /\ LET res == run.res
                     cls == Classify(res)
                 IN
                 /\ transformed' = [transformed EXCEPT ![id] = @ + 1]
                 /\ last' = [id |-> id, w |-> w, res |-> res, raised |-> cls.raised]
                 /\ IF cls.raised
                    THEN \* the exception leaves the with block and the job
                         /\ wpc' = [wpc EXCEPT ![w] = "raised"]
                         /\ wexc' = [wexc EXCEPT ![w] = cls.exc]
                         /\ cache' = Closed(w)
                         /\ outbuf' = [outbuf EXCEPT ![w] = <<>>]
                         /\ UNCHANGED <<wrows, emitted>>
                    ELSE LET line == JsonDumps(id, cls.status, cls.contents) IN
                         /\ outbuf' = [outbuf EXCEPT ![w] = Append(@, line)]
                         /\ emitted' = emitted \cup {<<w, line>>}
                         /\ wrows' = [wrows EXCEPT ![w] = Tail(@)]
                         /\ UNCHANGED <<wpc, wexc, cache>>
    /\ UNCHANGED <<contentFiles, preprocessedFiles, meta, pc, call, jobs, outcome, atStart>>

\* The buffer of outfile fills and is written to the sink.
WorkerBufferFull(w) ==
    /\ UNCHANGED <<committed, file, applied>>
    /\ pc = "pool"
    /\ wpc[w] = "running"
    /\ outbuf[w] # <<>>
    /\ cache' = Closed(w)
    /\ outbuf' = [outbuf EXCEPT ![w] = <<>>]
    /\ UNCHANGED <<contentFiles, preprocessedFiles, meta, pc, call, jobs, wpc, wrows,
                   wexc, outcome, atStart, transformed, emitted>>
    /\ last' = NoLast

\* The loop is over: outfile is closed, the job returns.
WorkerReturn(w) ==
    /\ UNCHANGED <<committed, file, applied>>
    /\ pc = "pool"
    /\ wpc[w] = "running"
    /\ wrows[w] = <<>>
    /\ cache' = Closed(w)
    /\ outbuf' = [outbuf EXCEPT ![w] = <<>>]
    /\ wpc' = [wpc EXCEPT ![w] = "done"]
    /\ UNCHANGED <<contentFiles, preprocessedFiles, meta, pc, call, jobs, wrows, wexc,
                   outcome, atStart, transformed, emitted>>
    /\ last' = NoLast

\* ------------------------------------------------------------- the rest

DELETED == <<"[DELETED]">>

\* The UPDATE without its WHERE clause.
Vacuumed_AllRows(table) ==
    [id \in DOMAIN table |-> [table[id] EXCEPT !.contents = DELETED]]

\* UPDATE PreprocessedFiles SET contents='[DELETED]' WHERE status=1 OR status=2
Vacuumed(table) ==
    [id \in DOMAIN table |->
        IF table[id].status = 1 \/ table[id].status = 2
        THEN [table[id] EXCEPT !.contents = DELETED]
        ELSE table[id]]

\* remove_bad_preprocessed(db_path)
RemoveBadPreprocessed ==
    /\ UNCHANGED <<committed, file, applied>>
    /\ pc = "idle"
    /\ preprocessedFiles' = Vacuumed(preprocessedFiles)
    /\ call' = [fn |-> "remove_bad_preprocessed", modified |-> None, max_num_workers |-> 0]
    /\ outcome' = NoOutcome
    /\ atStart' = Snapshot
    /\ transformed' = ZeroCounts
    /\ emitted' = {}
    /\ last' = NoLast
    /\ jobs' = <<>>
    /\ IdleWorkers
    /\ UNCHANGED <<contentFiles, meta, pc, cache>>

Forget ==
    /\ call' = NoCall
    /\ outcome' = NoOutcome
    /\ atStart' = NoTables
    /\ transformed' = ZeroCounts
    /\ emitted' = {}
    /\ last' = NoLast
    /\ jobs' = <<>>
    /\ IdleWorkers

\* ContentFiles is written from outside between the calls: a row is added.
\* The ids are opaque keys, so the rows arrive in the order of IdPool.
InsertContentFile ==
    /\ UNCHANGED <<committed, file, applied>>
    /\ pc = "idle"
    /\ Len(contentFiles) < MaxRows
    /\ Len(contentFiles) < Len(IdPool)
    /\ contentFiles' = Append(contentFiles, IdPool[Len(contentFiles) + 1])
    /\ Forget
    /\ UNCHANGED <<preprocessedFiles, meta, pc, cache>>

Next ==
    \/ CallPreprocessDb
    \/ CallPreprocessContentfiles
    \/ \E w \in Workers : WorkerStart(w)
    \/ \E w \in Workers : WorkerRow(w)
    \/ \E w \in Workers : WorkerBufferFull(w)
    \/ \E w \in Workers : WorkerReturn(w)
    \/ PoolReturn
    \/ PoolRaise
    \/ SetModifiedStatus
    \/ ReturnContentfiles
    \/ RemoveBadPreprocessed
    \/ InsertContentFile

Spec == Init /\ [][Next]_vars

\* -------------------------------------------------------- preprocess_file

\* The texts the file at `path` may hold before the first call.
FileTexts == {ContentsOf(id) : id \in Ids} \cup {<<>>}

\* clgen.log.fatal(msg, ret=ret): the message is logged as fatal and the
\* process exits with status ret.
fatal(msg, ret) == [how |-> "exited", ret |-> ret]

\* preprocess_file with the status of bad code for ugly code too.
preprocess_file_OneStatus(contents, inplace, res) ==
    IF res.ok
    THEN [how |-> "returned", ret |-> 0] @@
         [wrote |-> inplace, file |-> IF inplace THEN res.value ELSE contents]
    ELSE IF IsInstance(res.exc, "BadCodeException") \/ IsInstance(res.exc, "UglyCodeException")
         THEN fatal(res.msg, 1) @@ [wrote |-> FALSE, file |-> contents]
    ELSE [how |-> "raised", ret |-> 0, wrote |-> FALSE, file |-> contents]

\* preprocess_file(path, inplace) once the file is read and preprocess has
\* ended with res: how the call ends, and what the file holds after it.
preprocess_file(contents, inplace, res) ==
    IF res.ok
    THEN [how |-> "returned", ret |-> 0] @@
         [wrote |-> inplace, file |-> IF inplace THEN res.value ELSE contents]
    ELSE IF IsInstance(res.exc, "BadCodeException")
         THEN fatal(res.msg, 1) @@ [wrote |-> FALSE, file |-> contents]
    ELSE IF IsInstance(res.exc, "UglyCodeException")
         THEN fatal(res.msg, 2) @@ [wrote |-> FALSE, file |-> contents]
    ELSE [how |-> "raised", ret |-> 0, wrote |-> FALSE, file |-> contents]

\* A call of preprocess_file on the file, under one run of the tools.
PreprocessFile ==
    \E inplace \in BOOLEAN, t \in ToolRuns :
        LET contents == file
            res == preprocess(t, contents)
            end == preprocess_file(contents, inplace, res)
        IN /\ applied' = [fn |-> "preprocess_file", contents |-> contents,
                          inplace |-> inplace, res |-> res, how |-> end.how,
                          ret |-> end.ret, wrote |-> end.wrote]
           /\ file' = end.file
           /\ UNCHANGED <<batchVars, committed>>

InitFile ==
    /\ InitBatch
    /\ committed = NoCommitted
    /\ file \in FileTexts
    /\ applied = NoApplied

SpecFile == InitFile /\ [][PreprocessFile]_vars

\* ------------------------------------------- sanitize_prototype on its own

\* The characters of the texts sanitize_prototype is applied to.
TextChars == {"a", "{", " ", NLc}

\* The texts of at most MaxTextLen characters.
Texts == UNION {[1..n -> TextChars] : n \in 0..MaxTextLen}

InitSanitize ==
    /\ InitBatch
    /\ committed = NoCommitted
    /\ file = NoFile
    /\ applied \in {[fn |-> "sanitize_prototype", src |-> s, rets |-> <<>>] : s \in Texts}

\* sanitize_prototype(src), then sanitize_prototype of what it returned.
SanitizePrototype ==
    /\ applied.fn = "sanitize_prototype"
    /\ Len(applied.rets) < 2
    /\ LET src == IF applied.rets = <<>> THEN applied.src
                  ELSE applied.rets[Len(applied.rets)]
       IN applied' = [applied EXCEPT !.rets = Append(@, sanitize_prototype(src))]
    /\ UNCHANGED <<batchVars, committed, file>>

SpecSanitize == InitSanitize /\ [][SanitizePrototype]_vars

\* ------------------------------------------ the modification tracker alone

\* The ids the rows written to ContentFiles from outside may carry.
TrackerIds == {IdPool[i] : i \in 1..Len(IdPool)}

\* s without its i-th element.
Without(s, i) == SubSeq(s, 1, i - 1) \o SubSeq(s, i + 1, Len(s))

\* A row is added to ContentFiles.
InsertId ==
    /\ Len(contentFiles) < MaxRows
    /\ \E id \in TrackerIds :
          /\ \A i \in 1..Len(contentFiles) : contentFiles[i] # id
          /\ contentFiles' = Append(contentFiles, id)
    /\ applied' = NoApplied
    /\ UNCHANGED <<preprocessedFiles, meta, pc, call, jobs, wpc, wrows, wexc, outbuf, cache,
                   outcome, atStart, transformed, emitted, last, committed, file>>

\* A row is deleted from ContentFiles.
DeleteId ==
    /\ \E i \in 1..Len(contentFiles) : contentFiles' = Without(contentFiles, i)
    /\ applied' = NoApplied
    /\ UNCHANGED <<preprocessedFiles, meta, pc, call, jobs, wpc, wrows, wexc, outbuf, cache,
                   outcome, atStart, transformed, emitted, last, committed, file>>

\* modified = is_modified(db)
IsModified ==
    /\ applied' = [fn |-> "is_modified", ret |-> is_modified]
    /\ UNCHANGED <<batchVars, committed, file>>

\* if modified: ... set_modified_status(db, modified)
SetModifiedStatusOf ==
    /\ applied.fn = "is_modified"
    /\ Truthy(applied.ret)
    /\ meta' = applied.ret
    /\ committed' = [known |-> TRUE, ids |-> contentFiles]
    /\ applied' = [fn |-> "set_modified_status", ret |-> None]
    /\ UNCHANGED <<contentFiles, preprocessedFiles, pc, call, jobs, wpc, wrows, wexc, outbuf,
                   cache, outcome, atStart, transformed, emitted, last, file>>

NextTracker ==
    \/ InsertId
    \/ DeleteId
    \/ IsModified
    \/ SetModifiedStatusOf

SpecTracker == Init /\ [][NextTracker]_vars

\* ------------------------------------- verify_bytecode_features on its own

\* What parse_instcounts yields on a report that instcounts2ratios accepts:
\* no count at all, or the total alone, or a nonzero total with the count of
\* another type.
ParsedCounts ==
    {[k \in {} |-> 0]}
        \cup {[k \in {TotalKey} |-> n] : n \in 0..MaxCount}
        \cup {[k \in {TotalKey, "basic blocks"} |-> IF k = TotalKey THEN n ELSE m] :
                 n \in 1..MaxCount, m \in 0..MaxCount}

\* The FeatureSets bytecode_features returns.
FeatureSets == {instcounts2ratios(counts) : counts \in ParsedCounts}

InitFeatures ==
    /\ InitBatch
    /\ committed = NoCommitted
    /\ file = NoFile
    /\ applied \in {[fn |-> "verify_bytecode_features", bc_features |-> f, done |-> FALSE,
                      res |-> Ok(None)] : f \in FeatureSets}

\* verify_bytecode_features(bc_features, id)
VerifyBytecodeFeatures ==
    /\ applied.fn = "verify_bytecode_features"
    /\ ~applied.done
    /\ applied' = [applied EXCEPT !.done = TRUE,
                                  !.res = verify_bytecode_features(applied.bc_features)]
    /\ UNCHANGED <<batchVars, committed, file>>

SpecFeatures == InitFeatures /\ [][VerifyBytecodeFeatures]_vars

\* ------------------------------------------------------ _finalize on its own

\* The ids of the rows and of the sink records _finalize is applied to.
MergeIds == {IdPool[1], IdPool[2]}

\* The status and contents a row or a sink record carries.
MergeValues == {[status |-> 0, contents |-> <<"kernel">>], [status |-> 1, contents |-> ClangStderr]}

\* PreprocessedFiles before the merge.
MergeTables == UNION {[S -> MergeValues] : S \in SUBSET MergeIds}

\* The lines of a sink file.
MergeLines == {JsonDumps(id, v.status, v.contents) : id \in MergeIds, v \in MergeValues}

\* The sink files of the cache directory, by name.
MergeFiles ==
    LET texts == UNION {[1..n -> MergeLines] : n \in 0..MaxLines}
    IN UNION {[S -> texts] : S \in SUBSET {0, 1}}

InitMerge ==
    /\ InitBatch
    /\ committed = NoCommitted
    /\ file = NoFile
    /\ applied \in {[fn |-> "_finalize", table |-> t, files |-> f, done |-> FALSE, after |-> t] :
                      t \in MergeTables, f \in MergeFiles}

\* _finalize(db_path, cache)
Finalize ==
    /\ applied.fn = "_finalize"
    /\ ~applied.done
    /\ applied' = [applied EXCEPT !.done = TRUE,
                                  !.after = Finalized(applied.table, applied.files)]
    /\ UNCHANGED <<batchVars, committed, file>>

SpecMerge == InitMerge /\ [][Finalize]_vars

\* ---------------------------------------------------------------- claims

\* The call in progress or last made went into preprocess_contentfiles.
EnteredRun ==
    \/ call.fn = "preprocess_contentfiles"
    \/ call.fn = "preprocess_db" /\ Truthy(call.modified)

\* The line is a row of PreprocessedFiles.
Stored(line) ==
    /\ line[1] \in DOMAIN preprocessedFiles
    /\ preprocessedFiles[line[1]] = [status |-> line[2], contents |-> line[3]]

\* The line is in the sink file of worker w.
InSink(w, line) ==
    /\ w \in DOMAIN cache
    /\ \E i \in 1..Len(cache[w]) : cache[w][i] = line

\* The step just taken invoked preprocess, and a line with this status was
\* written for the sample by the worker that invoked it.
Recorded(status) ==
    /\ ~last.raised
    /\ \E e \in emitted : e[1] = last.w /\ e[2][1] = last.id /\ e[2][2] = status

StageOrder ==
    <<"CompileToBytecode", "ExtractFeatures", "VerifyFeatures", "PreprocessMacros",
      "Rewrite", "Format", "SanitizePrototype">>

\* The tool of a stage reported the failure the stage ends the pipeline on.
StageFailed(e) == IF e.stage = "Rewrite" THEN e.exit = 204 ELSE e.exit # 0

\* C1: whatever the external tools exit with, an invocation of the
\* transformer by a batch worker yields exactly one sink record, with status
\* 0, 1 or 2, and no worker's job ends in an exception.
C1_ClassificationTotality ==
    /\ \A w \in Workers : wpc[w] # "raised"
    /\ last.id # None =>
          /\ ~last.raised
          /\ Cardinality({e \in emitted : e[2][1] = last.id}) = 1
          /\ \A e \in emitted : e[2][1] = last.id => e[2][2] \in {0, 1, 2}

\* C2: for every row count >= 0 and every max_num_workers >= 1,
\* preprocess_contentfiles builds min(count, max) jobs whose ranges
\* [i*r, (i+1)*r), r = ceil(count / workers), are contiguous, disjoint and
\* cover [0, count); it does not fail while it computes them.
C2_PartitionCoverage ==
    EnteredRun =>
        LET n == Len(contentFiles)
            k == Min(n, call.max_num_workers)
            r == IF k = 0 THEN 0 ELSE CeilDiv(n, k)
        IN /\ outcome.exc # "ZeroDivisionError"
           /\ DOMAIN jobs = 0..(k - 1)
           /\ \A i \in DOMAIN jobs : jobs[i].db_index_range = <<i * r, (i + 1) * r>>
           /\ \A x \in 0..(n - 1) :
                 Cardinality({i \in DOMAIN jobs :
                                 /\ jobs[i].db_index_range[1] <= x
                                 /\ x < jobs[i].db_index_range[2]}) = 1

\* C3: when a job's exception is re-raised by the pool, the sinks are still
\* imported (and the cache emptied), every line written by a worker whose
\* job returned is a row of PreprocessedFiles after the call, and the caller
\* gets the exception a job raised.
C3_MergeSafety ==
    (outcome.result = "raised" /\ outcome.exc # "ZeroDivisionError") =>
        /\ cache = <<>>
        /\ \A e \in emitted : wpc[e[1]] = "done" => Stored(e[2])
        /\ \E w \in DOMAIN jobs : wpc[w] = "raised" /\ wexc[w] = outcome.exc

\* C3's case: the call raised and a worker whose job had returned had
\* written a line.
C3_Witness ==
    /\ outcome.result = "raised"
    /\ \E e \in emitted : wpc[e[1]] = "done"

\* C4: once preprocess_db has completed, a call of preprocess_db on the same
\* ContentFiles dispatches no worker and transforms nothing, returns False
\* and leaves PreprocessedFiles (and Meta) as they were.
C4_Idempotence ==
    [][(/\ pc = "idle"
        /\ call.fn = "preprocess_db"
        /\ outcome.result \in {"True", "False"}
        /\ call'.fn = "preprocess_db")
       => (/\ pc' = "idle"
           /\ outcome'.result = "False"
           /\ preprocessedFiles' = preprocessedFiles
           /\ meta' = meta
           /\ transformed' = ZeroCounts
           /\ \A w \in Workers : wpc'[w] = "none")]_vars

\* C4's case: preprocess_db has returned False on a store whose committed
\* checksum is that of its ContentFiles and which holds results of the run
\* that committed it.
C4_Witness ==
    /\ pc = "idle"
    /\ call.fn = "preprocess_db"
    /\ outcome.result = "False"
    /\ meta # None
    /\ meta = MD5SUM(contentFiles)
    /\ preprocessedFiles # <<>>
    /\ atStart.preprocessedFiles = preprocessedFiles

\* C5: when the analyzer exits nonzero after a successful compile, or the
\* formatter exits nonzero after every earlier stage succeeded, the worker
\* writes a record with status 1 for the sample.
C5_ToolchainFailuresBad ==
    last.id # None =>
        LET tr == last.res.trace IN
        (tr[Len(tr)].stage \in {"ExtractFeatures", "Format"} /\ tr[Len(tr)].exit # 0)
            => Recorded(1)

\* C6: Meta's checksum is not written before the dispatch and the merge of a
\* run are over; a run that raises, and preprocess_contentfiles called on
\* its own, leave it as it was, so that is_modified still reports the
\* ContentFiles as modified; a run of preprocess_db that returns True has
\* written it once, after every job returned and the sinks were imported.
C6_CommitDeferred ==
    /\ pc \in {"pool", "merged"} => meta = atStart.meta
    /\ (EnteredRun /\ outcome.result = "raised") =>
          /\ meta = atStart.meta
          /\ call.fn = "preprocess_db" => Truthy(is_modified)
    /\ (EnteredRun /\ call.fn = "preprocess_contentfiles") => meta = atStart.meta
    /\ outcome.result = "True" =>
          /\ meta = call.modified
          /\ \A w \in DOMAIN jobs : wpc[w] = "done"
          /\ cache = <<>>
          /\ \A e \in emitted : Stored(e[2])

\* C6's case: a run of preprocess_db raised on a store that held a checksum.
C6_Witness ==
    /\ call.fn = "preprocess_db"
    /\ outcome.result = "raised"
    /\ atStart.meta # None
    /\ meta = atStart.meta

\* C7: a line a worker has written is in its sink file (or already imported)
\* by the time the worker turns to its next row, hence also when the worker
\* is terminated.
C7_PerRecordDurable ==
    \A e \in emitted : InSink(e[1], e[2]) \/ Stored(e[2])

\* C8: in a run, a row whose id PreprocessedFiles already holds is not
\* transformed, gets no sink record, and keeps its stored row; so also in a
\* run that follows a run that raised.
C8_PerRowSkip ==
    (atStart.known /\ EnteredRun) =>
        \A id \in DOMAIN atStart.preprocessedFiles :
            /\ transformed[id] = 0
            /\ \A e \in emitted : e[2][1] # id
            /\ id \in DOMAIN preprocessedFiles
            /\ preprocessedFiles[id] = atStart.preprocessedFiles[id]

\* C8's case: a run that followed a run that raised has ended; it found rows
\* the earlier run had imported, skipped them and added others.
C8_Witness ==
    /\ EnteredRun
    /\ atStart.afterRaise
    /\ pc = "idle"
    /\ outcome.result \in {"True", "returned"}
    /\ atStart.preprocessedFiles # <<>>
    /\ \E id \in DOMAIN atStart.preprocessedFiles :
          \E i \in 1..Len(contentFiles) : contentFiles[i] = id
    /\ DOMAIN preprocessedFiles # DOMAIN atStart.preprocessedFiles

\* C9: a rewriter exit status of 204 makes the sample Ugly (a record with
\* status 2) whatever the rewriter printed; with any other exit status the
\* pipeline goes on to the formatter, which is given the rewriter's standard
\* output (less its attribute qualifiers).
C9_RewriteSpecialCase ==
    last.id # None =>
        LET tr == last.res.trace IN
        \A i \in 1..Len(tr) :
            tr[i].stage = "Rewrite" =>
                IF tr[i].exit = 204
                THEN i = Len(tr) /\ Recorded(2)
                ELSE /\ i < Len(tr)
                     /\ tr[i + 1].stage = "Format"
                     /\ tr[i + 1].input = strip_attributes(tr[i].stdout)

\* C9's case: the rewriter printed something and exited with 204.
C9_Witness ==
    /\ last.id # None
    /\ \E i \in 1..Len(last.res.trace) :
          /\ last.res.trace[i].stage = "Rewrite"
          /\ last.res.trace[i].exit = 204
          /\ last.res.trace[i].stdout # <<>>

\* C10: preprocess enters the stages in the fixed order, the stage that fails
\* is the last one entered, all seven are entered when none fails, and a
\* nonzero exit of the bytecode compile gives a Bad record with no other
\* stage entered.
C10_StageOrder ==
    last.id # None =>
        LET tr == last.res.trace IN
        /\ Len(tr) \in 1..Len(StageOrder)
        /\ \A i \in 1..Len(tr) : tr[i].stage = StageOrder[i]
        /\ \A i \in 1..(Len(tr) - 1) : ~StageFailed(tr[i])
        /\ ~last.res.ok => StageFailed(tr[Len(tr)])
        /\ last.res.ok => Len(tr) = Len(StageOrder)
        /\ tr[1].exit # 0 => (Len(tr) = 1 /\ Recorded(1))

\* C10's case: the bytecode compile exited nonzero.
C10_Witness ==
    /\ last.id # None
    /\ last.res.trace[1].exit # 0

\* The contents a rejected sample's record may carry: what a tool printed on
\* its failure, or the instruction-count message.
FailureMessages ==
    {ClangStderr, OptOutput, FormatStderr, <<"Code contains too few instructions">>}

\* C11: a worker's record has status 0 exactly when all seven stages were
\* entered and none failed, and its contents is then what SanitizePrototype
\* made of its input; the contents of a record with status 1 or 2 is a
\* failure message, never text of the sample.
C11_AcceptedOnFullSuccess ==
    (last.id # None /\ ~last.raised) =>
        LET tr == last.res.trace
            completed == /\ Len(tr) = Len(StageOrder)
                         /\ \A i \in 1..Len(tr) : ~StageFailed(tr[i])
        IN \A e \in emitted :
              (e[1] = last.w /\ e[2][1] = last.id) =>
                  /\ (e[2][2] = 0) <=> completed
                  /\ (e[2][2] = 0) => e[2][3] = sanitize_prototype(tr[Len(tr)].input)
                  /\ (e[2][2] \in {1, 2}) => e[2][3] \in FailureMessages

\* The step is one of worker w.
Stepped(w) == wpc'[w] # wpc[w] \/ wrows'[w] # wrows[w] \/ outbuf'[w] # outbuf[w]

\* C12: from the dispatch of the pool to the start of the merge no step
\* changes ContentFiles, PreprocessedFiles or Meta; a step that changes a sink
\* file is a step of the one worker whose job names that file;
\* PreprocessedFiles changes only in the merge and in
\* remove_bad_preprocessed; no two jobs of a run have the same sink path.
C12_WorkersNeverWriteStore ==
    [][/\ (pc = "pool" /\ pc' = "pool") =>
             /\ contentFiles' = contentFiles
             /\ preprocessedFiles' = preprocessedFiles
             /\ meta' = meta
             /\ \A n \in DOMAIN cache' :
                   (n \notin DOMAIN cache \/ cache[n] # cache'[n]) =>
                       \E w \in DOMAIN jobs :
                           /\ jobs[w].json_out = n
                           /\ Stepped(w)
                           /\ \A v \in Workers \ {w} : ~Stepped(v)
       /\ preprocessedFiles' # preprocessedFiles =>
             \/ pc = "pool" /\ pc' # "pool"
             \/ call'.fn = "remove_bad_preprocessed"
       /\ \A i, j \in DOMAIN jobs' : i # j => jobs'[i].json_out # jobs'[j].json_out]_vars

\* C12's case: two workers of a run have both written records to their
\* sinks, and the tables are as the run found them.
C12_Witness ==
    /\ pc = "pool"
    /\ \E v, w \in DOMAIN cache : v # w /\ cache[v] # <<>> /\ cache[w] # <<>>
    /\ preprocessedFiles = atStart.preprocessedFiles
    /\ meta = atStart.meta

\* The lines the sink files hold.
LinesOf(files) ==
    UNION {{<<n, files[n][i]>> : i \in 1..Len(files[n])} : n \in DOMAIN files}

\* C13: the step in which preprocess_contentfiles leaves pool.map, on the
\* return of every job or on a job's exception, imports every line of every
\* sink file and empties the cache directory; the lines it imports were all
\* written in this run, each by the worker that owns the file; outside
\* pool.map the cache directory holds no sink file.
C13_SinkCleanup ==
    [][/\ (pc = "pool" /\ pc' # "pool") =>
             /\ cache' = <<>>
             /\ \A l \in LinesOf(cache) :
                   /\ Stored(l[2])'
                   /\ \E e \in emitted : e[2] = l[2] /\ jobs[e[1]].json_out = l[1]
       /\ pc' # "pool" => cache' = <<>>]_vars

\* C13's case: a job's exception was re-raised, a worker was terminated, and
\* a line it had got into its sink file was imported before the cache
\* directory was emptied.
C13_Witness ==
    /\ pc = "idle"
    /\ outcome.result = "raised"
    /\ cache = <<>>
    /\ \E e \in emitted : wpc[e[1]] = "killed" /\ Stored(e[2])

\* C14: remove_bad_preprocessed sets contents to '[DELETED]' in every row of
\* PreprocessedFiles with status 1 or 2, leaves every row with status 0 as it
\* was, changes no id and no status, adds and removes no row, and leaves
\* ContentFiles and Meta alone; called again right after, it changes nothing.
C14_VacuumScrubsRejected ==
    [][call'.fn = "remove_bad_preprocessed" =>
          /\ DOMAIN preprocessedFiles' = DOMAIN preprocessedFiles
          /\ \A id \in DOMAIN preprocessedFiles :
                /\ preprocessedFiles'[id].status = preprocessedFiles[id].status
                /\ preprocessedFiles[id].status = 0 =>
                      preprocessedFiles'[id] = preprocessedFiles[id]
                /\ preprocessedFiles[id].status \in {1, 2} =>
                      preprocessedFiles'[id].contents = DELETED
          /\ contentFiles' = contentFiles
          /\ meta' = meta
          /\ call.fn = "remove_bad_preprocessed" => preprocessedFiles' = preprocessedFiles]_vars

\* C14's case: remove_bad_preprocessed has run on a table with an accepted
\* row, which kept its contents, and a rejected row, whose message it
\* replaced.
C14_Witness ==
    /\ call.fn = "remove_bad_preprocessed"
    /\ \E id \in DOMAIN preprocessedFiles :
          /\ preprocessedFiles[id].status = 0
          /\ preprocessedFiles[id].contents # DELETED
    /\ \E id \in DOMAIN preprocessedFiles :
          /\ preprocessedFiles[id].status \in {1, 2}
          /\ preprocessedFiles[id].contents = DELETED
          /\ atStart.preprocessedFiles[id].contents # DELETED

\* C15: preprocess_file ends a Bad outcome with exit status 1 and an Ugly
\* outcome with exit status 2, writes the file in neither case whatever
\* inplace is, and writes it only when preprocess returned.
C15_SingleFileExitStatus ==
    applied.fn = "preprocess_file" =>
        LET bad == ~applied.res.ok /\ IsInstance(applied.res.exc, "BadCodeException")
            ugly == ~applied.res.ok /\ IsInstance(applied.res.exc, "UglyCodeException")
        IN /\ bad => (applied.how = "exited" /\ applied.ret = 1)
           /\ ugly => (applied.how = "exited" /\ applied.ret = 2)
           /\ (bad \/ ugly) => (~applied.wrote /\ file = applied.contents)
           /\ applied.wrote => (applied.res.ok /\ applied.inplace)
           /\ file # applied.contents => applied.wrote

\* C15's case: preprocess_file was called with inplace on a file whose code
\* the rewriter found ugly.
C15_Witness ==
    /\ applied.fn = "preprocess_file"
    /\ applied.inplace
    /\ ~applied.res.ok
    /\ IsInstance(applied.res.exc, "UglyCodeException")

RECURSIVE NonWhitespace(_)
\* The characters of s that are not whitespace, in their order.
NonWhitespace(s) ==
    IF s = <<>> THEN <<>>
    ELSE IF Head(s) \in Whitespace THEN NonWhitespace(Tail(s))
    ELSE <<Head(s)>> \o NonWhitespace(Tail(s))

\* Where s breaks into tokens: for every whitespace character that has other
\* characters on both sides, how many of them come before it.
TokenBreaks(s) ==
    {Len(NonWhitespace(SubSeq(s, 1, i))) : i \in {j \in 1..Len(s) : s[j] \in Whitespace}}
        \ {0, Len(NonWhitespace(s))}

\* p is tokens joined with single spaces: its only whitespace is a space
\* between two other characters.
SingleSpaced(p) ==
    \A i \in 1..Len(p) :
        p[i] \in Whitespace =>
            /\ p[i] = " "
            /\ 1 < i /\ i < Len(p)
            /\ p[i - 1] \notin Whitespace
            /\ p[i + 1] \notin Whitespace

\* C16: on a text with a '{', sanitize_prototype returns the tokens of the
\* text up to and including its first '{', joined with single spaces,
\* followed by the rest of the text as it was; a text without '{' comes back
\* as it was; sanitize_prototype of what it returned is what it returned.
C16_PrototypeSanitation ==
    (applied.fn = "sanitize_prototype" /\ applied.rets # <<>>) =>
        LET src == applied.src
            out == applied.rets[1]
            k == IndexEnd(src, "{")
            rest == SubSeq(src, k + 1, Len(src))
            p == SubSeq(out, 1, Len(out) - Len(rest))
        IN /\ k = 0 => out = src
           /\ k > 0 =>
                 /\ Len(out) >= Len(rest)
                 /\ SubSeq(out, Len(out) - Len(rest) + 1, Len(out)) = rest
                 /\ SingleSpaced(p)
                 /\ NonWhitespace(p) = NonWhitespace(SubSeq(src, 1, k))
                 /\ TokenBreaks(p) = TokenBreaks(SubSeq(src, 1, k))
           /\ Len(applied.rets) = 2 => applied.rets[2] = out

\* C16's case: sanitize_prototype changed a text whose prototype was spread
\* over lines and whose body holds whitespace, and was applied again.
C16_Witness ==
    /\ applied.fn = "sanitize_prototype"
    /\ Len(applied.rets) = 2
    /\ applied.rets[1] # applied.src
    /\ LET k == IndexEnd(applied.src, "{") IN
          /\ k > 1
          /\ \E i \in 1..(k - 1) : applied.src[i] = NLc
          /\ \E i \in (k + 1)..Len(applied.src) : applied.src[i] \in Whitespace

\* The ids of a sequence of rows, as a collection.
IdsOf(rows) == {rows[i] : i \in 1..Len(rows)}

\* C17: is_modified returns False exactly when the ids of ContentFiles are
\* those it held when the stored checksum was written; otherwise, also when
\* ContentFiles is or was empty and when no checksum is stored yet, it
\* returns a new checksum that is true, so that preprocess_db runs.
C17_FingerprintTracksIds ==
    applied.fn = "is_modified" =>
        LET unchanged == committed.known /\ IdsOf(contentFiles) = IdsOf(committed.ids)
        IN /\ (applied.ret = False) <=> unchanged
           /\ ~unchanged => Truthy(applied.ret)

\* C18: when preprocess_contentfiles returns (no job raised, ContentFiles as
\* the run found it), every id of ContentFiles has a row in PreprocessedFiles
\* with status 0, 1 or 2, and every id that had no row when the run began
\* was given to preprocess once, by one worker.
C18_CompleteCoverage ==
    (EnteredRun /\ (pc = "merged" \/ outcome.result \in {"True", "returned"})) =>
        \A i \in 1..Len(contentFiles) :
            LET id == contentFiles[i] IN
            /\ id \in DOMAIN preprocessedFiles
            /\ preprocessedFiles[id].status \in {0, 1, 2}
            /\ id \notin DOMAIN atStart.preprocessedFiles =>
                  /\ transformed[id] = 1
                  /\ Cardinality({e[1] : e \in {x \in emitted : x[2][1] = id}}) = 1

\* C18's case: a run of two jobs on a store without results has returned,
\* and each of the two workers transformed a sample.
C18_Witness ==
    /\ EnteredRun
    /\ pc = "merged"
    /\ atStart.preprocessedFiles = <<>>
    /\ Len(contentFiles) > 1
    /\ \E v, w \in DOMAIN jobs :
          /\ v # w
          /\ \E e \in emitted : e[1] = v
          /\ \E e \in emitted : e[1] = w

\* C19: verify_bytecode_features raises, and then the instruction-count
\* exception of the ugly kind, exactly when the total instruction count of
\* the FeatureSet, 0 without the total key, is below min_num_instructions;
\* with min_num_instructions = 0 it raises on no FeatureSet that
\* bytecode_features returns.
C19_FeatureAcceptance ==
    (applied.fn = "verify_bytecode_features" /\ applied.done) =>
        LET f == applied.bc_features
            total == IF "instructions_of_all_types" \in DOMAIN f
                     THEN f["instructions_of_all_types"] ELSE 0
        IN /\ ~applied.res.ok <=> total < min_num_instructions
           /\ ~applied.res.ok =>
                 /\ applied.res.exc = "InstructionCountException"
                 /\ IsInstance(applied.res.exc, "UglyCodeException")
           /\ applied.res.ok

\* C19's case: verify_bytecode_features was given a FeatureSet without the
\* total key.
C19_Witness ==
    /\ applied.fn = "verify_bytecode_features"
    /\ applied.done
    /\ "instructions_of_all_types" \notin DOMAIN applied.bc_features

\* The rows of a table.
RowsOf(table) ==
    {[id |-> id, status |-> table[id].status, contents |-> table[id].contents] :
        id \in DOMAIN table}

\* The lines of the sink files in the order _finalize reads them.
ReadOrder(files) ==
    (IF 0 \in DOMAIN files THEN files[0] ELSE <<>>)
        \o (IF 1 \in DOMAIN files THEN files[1] ELSE <<>>)

\* C20: after _finalize PreprocessedFiles holds one row per id; the row of
\* an id some sink record names carries the status and contents of the last
\* such record read, whether or not the id had a row before; the other rows
\* are as they were and no other id appears.
C20_ReplaceKeepsIdsUnique ==
    (applied.fn = "_finalize" /\ applied.done) =>
        LET lines == ReadOrder(applied.files)
            named == {lines[i][1] : i \in 1..Len(lines)}
        IN /\ \A r, q \in RowsOf(applied.after) : r.id = q.id => r = q
           /\ Cardinality(RowsOf(applied.after)) = Cardinality(DOMAIN applied.table \cup named)
           /\ DOMAIN applied.after = DOMAIN applied.table \cup named
           /\ \A id \in DOMAIN applied.table \ named : applied.after[id] = applied.table[id]
           /\ \A id \in named :
                 LET i == CHOOSE i \in 1..Len(lines) :
                              /\ lines[i][1] = id
                              /\ \A j \in (i + 1)..Len(lines) : lines[j][1] # id
                 IN applied.after[id] = [status |-> lines[i][2], contents |-> lines[i][3]]

\* C20's case: _finalize read a record for an id that had a row with another
\* status.
C20_Witness ==
    /\ applied.fn = "_finalize"
    /\ applied.done
    /\ \E id \in DOMAIN applied.table :
          /\ \E i \in 1..Len(ReadOrder(applied.files)) : ReadOrder(applied.files)[i][1] = id
          /\ applied.after[id].status # applied.table[id].status

\* The orders in which the files of a cache directory can be read.
ReadOrders(files) ==
    LET n == Cardinality(DOMAIN files) IN
    {o \in [1..n -> DOMAIN files] : \A i, j \in 1..n : o[i] = o[j] => i = j}

RECURSIVE ImportInOrder(_, _, _)
\* The table once the files are imported in the order given.
ImportInOrder(table, files, order) ==
    IF order = <<>> THEN table
    ELSE ImportInOrder(InsertLines(table, files[Head(order)]), files, Tail(order))

\* The table a run leaves, from the table it found and the records written
\* for its samples.
TableWith(table, written) ==
    [id \in DOMAIN table \cup {e[2][1] : e \in written} |->
        IF id \in DOMAIN table THEN table[id]
        ELSE LET e == CHOOSE e \in written : e[2][1] = id
             IN [status |-> e[2][2], contents |-> e[2][3]]]

\* C21: in a run no id is written by two workers or twice, so no id is in
\* two sink files or twice in one; when every job has returned, importing
\* the sink files in any order gives the table _finalize leaves, which is the
\* table the run found plus the one record of each sample transformed,
\* however the workers' steps interleaved.
C21_MergeOrderIndependent ==
    [][/\ \A d, e \in emitted' : d[2][1] = e[2][1] => d = e
       /\ \A k, l \in LinesOf(cache') : k[2][1] = l[2][1] => k[1] = l[1]
       /\ \A n \in DOMAIN cache' :
             \A i, j \in 1..Len(cache'[n]) : cache'[n][i][1] = cache'[n][j][1] => i = j
       /\ (pc = "pool" /\ pc' = "merged") =>
             /\ \A order \in ReadOrders(cache) :
                   ImportInOrder(preprocessedFiles, cache, order) = preprocessedFiles'
             /\ preprocessedFiles' = TableWith(atStart.preprocessedFiles, emitted)]_vars

\* C21's case: a run has returned in which two workers wrote records of
\* different status, each to its own sink.
C21_Witness ==
    /\ pc = "merged"
    /\ \E d, e \in emitted :
          /\ d[1] # e[1]
          /\ d[2][2] # e[2][2]
          /\ Stored(d[2])
          /\ Stored(e[2])

====
